---- MODULE Spec2Model ----
(***************************************************************************)
(* Effective Index Method (eim): the bisection root finder, the 3-layer    *)
(* slab solver, the 5-layer slot solver and the strip / slot compositions. *)
(*                                                                         *)
(* Doubles are modelled in fixed point: a value v stands for v / One.      *)
(* The same scale is used for abscissae (effective indices) and for        *)
(* residuals, because the code compares both against the same tolerance.   *)
(* NaN is a distinguished value; every comparison with NaN is false.       *)
(* The tolerance of bisection (1e-4 by default) spans Tol grid steps: a    *)
(* double resolves residuals far below its tolerance, and the grid must do *)
(* the same for a continuous residual to be found within tolerance.        *)
(***************************************************************************)
EXTENDS Integers, Sequences, FiniteSets, TLC

VARIABLES
    wg,     \* the strip Waveguide parameter bundle (src/eim.cc)
    swg,    \* the slot waveguide parameter bundle (slot.h)
    op,     \* the operation performed last
    args,   \* its arguments
    res,    \* its result
    \* async_for_each (async.h)
    apc,        \* position of the calling thread
    ain,        \* its inputs: range size, threads, positions where f throws
    task,       \* per chunk: begin, end, position of the task
    ex_ptr,     \* the exception retained (0 is nullptr)
    abort,      \* the abort flag
    completed,  \* the counter of completed chunks
    slots,      \* per output slot: the writes made to it
    caught,     \* the chunks whose catch block took the mutex, in order
    \* solve_slab with PAR > 0 (libeim.h)
    ppc,        \* position of the calling thread
    pin,        \* the arguments of the call
    te_mode,    \* the TE task and its future
    tm_mode,    \* the TM task and its future
    pret,       \* the tuple returned
    \* main of the command line tool
    argv,       \* the values of the options given
    mpc,        \* position of main
    ctx,        \* the configuration parsed from the options
    cur,        \* the indices of the sweep loops
    rows,       \* the result rows printed
    solves,     \* the number of operator() and mode_2D calls made
    status      \* the exit status

libVars == <<wg, swg, op, args, res>>
asyncVars == <<apc, ain, task, ex_ptr, abort, completed, slots, caught>>
parVars == <<ppc, pin, te_mode, tm_mode, pret>>
cliVars == <<argv, mpc, ctx, cur, rows, solves, status>>

vars == <<libVars, asyncVars, parVars, cliVars>>

----------------------------------------------------------------------------
(* Fixed-point doubles                                                      *)

\* a double v is the integer v * One; one grid step is the default
\* tolerance 1e-4 of bisection
One == 10000

\* the tolerance the solvers pass on, in grid steps; wider than one step so
\* that the grid resolves residuals and bracket widths below the tolerance
Tol == 16

\* the default iteration budget of bisection
MaxIter == 100

NaN == 0 - 2000000000

\* M_PI_2 and M_PI; atan2(y, 0) + atan2(y, 0) is exactly M_PI in doubles
HalfPI == (One * 355) \div 226

PI == 2 * HalfPI

CONVERGED == "CONVERGED"
DIVERGED == "DIVERGED"
INVALID_RANGE == "INVALID_RANGE"

IsNaN(x) == x = NaN

\* x > y, x < y, x <= y on doubles: false when an operand is NaN
GT(x, y) == ~IsNaN(x) /\ ~IsNaN(y) /\ x > y
LT(x, y) == ~IsNaN(x) /\ ~IsNaN(y) /\ x < y
LE(x, y) == ~IsNaN(x) /\ ~IsNaN(y) /\ x <= y

\* std::fabs
Fabs(x) == IF IsNaN(x) THEN NaN ELSE IF x < 0 THEN 0 - x ELSE x

Sgn(x) == IF x > 0 THEN 1 ELSE IF x < 0 THEN 0 - 1 ELSE 0

\* x * y > 0 and x * y < 0, by the signs of the factors (the product itself
\* is not needed and would leave the fixed-point range)
ProdPos(x, y) == ~IsNaN(x) /\ ~IsNaN(y) /\ Sgn(x) * Sgn(y) > 0
ProdNeg(x, y) == ~IsNaN(x) /\ ~IsNaN(y) /\ Sgn(x) * Sgn(y) < 0

\* std::min(x, y) is (y < x) ? y : x
StdMin(x, y) == IF LT(y, x) THEN y ELSE x
StdMax(x, y) == IF LT(x, y) THEN y ELSE x

\* a local variable: Body(x) with x bound to the value of v, computed once
Auto(v, Body(_)) == CHOOSE r \in {Body(x) : x \in {v}} : TRUE

\* a point a quarter of the way from x to y
Mid_Quarter(x, y) == x + (y - x) \div 4

\* (x + y) / 2.0, rounded to the grid
Mid(x, y) == (x + y) \div 2

\* floor of the square root, by bisection on [lo, hi)
RECURSIVE ISqrtIter(_, _, _)
ISqrtIter(n, lo, hi) ==
    IF hi - lo <= 1 THEN lo
    ELSE LET m == (lo + hi) \div 2
         IN  IF m * m <= n THEN ISqrtIter(n, m, hi) ELSE ISqrtIter(n, lo, m)

ISqrt(n) == ISqrtIter(n, 0, 46341)

\* floor(x * y / z) for x, y >= 0 and z > 0 without forming x * y
MulDiv(x, y, z) == (x \div z) * y + ((x % z) * y) \div z

\* atan on [0, 1]: (pi/4) r + r (1 - r) (0.2447 + 0.0663 r), r = v / One
Atan01(v) ==
    (PI * v) \div (4 * One)
    + (((v * (One - v)) \div One) * (2447 + (663 * v) \div One)) \div One

\* std::atan2(y, x) for finite y >= 0, x >= 0; atan2(0, 0) is 0
Atan2(y, x) ==
    IF y = 0 THEN 0
    ELSE IF x = 0 THEN HalfPI
    ELSE IF y <= x THEN Atan01(MulDiv(y, One, x))
    ELSE HalfPI - Atan01(MulDiv(x, One, y))

\* std::tanh(z) for z >= 0: the Pade quotient
\* z (945 + 105 z^2 + z^4) / (945 + 420 z^2 + 15 z^4), saturating at 1
Tanh(z) ==
    IF z >= 4 * One THEN One
    ELSE LET z2  == (z * z) \div One
             z4  == MulDiv(z2, z2, One)
             num == (945 * One + 105 * z2 + z4) \div 128
             den == (945 * One + 420 * z2 + 15 * z4) \div 128
             t   == MulDiv(num, z, den)
         IN  IF t > One THEN One ELSE t

----------------------------------------------------------------------------
(* eim::slab_equation, eim::slot_cosh_equation, eim::slot_sinh_equation     *)

TE == "TE"
TM == "TM"

\* k0 * sqrt(r) with k0 = 2 pi / lambda, for a radicand r >= 0
Gamma(r, lambda) == MulDiv(2 * PI, ISqrt(r), lambda)

\* pow(n, 2) as a weight of an atan2 argument (only ratios of weights count)
Sq(n) == (n * n) \div (10 * One)

slab_equation(mode, n1, n2, n3, lambda, W, j, neff) ==
    LET r1 == neff * neff - n1 * n1
        r2 == n2 * n2 - neff * neff
        r3 == neff * neff - n3 * n3
    IN  IF r1 < 0 \/ r2 < 0 \/ r3 < 0 THEN NaN
        ELSE LET gamma1 == Gamma(r1, lambda)
                 gamma2 == Gamma(r2, lambda)
                 gamma3 == Gamma(r3, lambda)
                 lhs    == MulDiv(gamma2, W, One)
                 rhs    == IF mode = TE
                           THEN 0 - Atan2(gamma2, gamma1) - Atan2(gamma2, gamma3)
                                + (j + 1) * PI
                           ELSE 0 - Atan2(MulDiv(gamma2, Sq(n1), Sq(n2)), gamma1)
                                - Atan2(MulDiv(gamma2, Sq(n3), Sq(n2)), gamma3)
                                + (j + 1) * PI
             IN  rhs - lhs

slot_cosh_equation(n_clad, n_core, n_slot, lambda, a, b, j, neff) ==
    LET rs == neff * neff - n_slot * n_slot
        rc == n_core * n_core - neff * neff
        rl == neff * neff - n_clad * n_clad
    IN  IF rs < 0 \/ rc < 0 \/ rl < 0 THEN NaN
        ELSE LET gamma_slot == Gamma(rs, lambda)
                 kappa_core == Gamma(rc, lambda)
                 gamma_clad == Gamma(rl, lambda)
                 term1 == Atan2(gamma_clad,
                                MulDiv(kappa_core, Sq(n_clad), Sq(n_core)))
                 term2 == Atan2(MulDiv(gamma_slot,
                                       Tanh(MulDiv(gamma_slot, a, One)), One),
                                MulDiv(kappa_core, Sq(n_slot), Sq(n_core)))
                 lhs   == term1 + term2 + j * PI
                 rhs   == MulDiv(kappa_core, b - a, One)
             IN  rhs - lhs

\* coth_term = 1.0 / tanh(gamma_slot * a) is +inf when the tanh is 0, and
\* gamma_slot * coth_term is then NaN for gamma_slot = 0 and +inf otherwise
slot_sinh_equation(n_clad, n_core, n_slot, lambda, a, b, j, neff) ==
    LET rs == neff * neff - n_slot * n_slot
        rc == n_core * n_core - neff * neff
        rl == neff * neff - n_clad * n_clad
    IN  IF rs < 0 \/ rc < 0 \/ rl < 0 THEN NaN
        ELSE LET gamma_slot == Gamma(rs, lambda)
                 kappa_core == Gamma(rc, lambda)
                 gamma_clad == Gamma(rl, lambda)
                 th    == Tanh(MulDiv(gamma_slot, a, One))
                 term1 == Atan2(gamma_clad,
                                MulDiv(kappa_core, Sq(n_clad), Sq(n_core)))
                 term2 == IF th = 0 THEN HalfPI
                          ELSE Atan2(MulDiv(gamma_slot, One, th),
                                     MulDiv(kappa_core, Sq(n_slot), Sq(n_core)))
                 lhs   == term1 + term2 + j * PI
                 rhs   == MulDiv(kappa_core, b - a, One)
             IN  IF gamma_slot = 0 THEN NaN ELSE rhs - lhs

----------------------------------------------------------------------------
(* Residual functions handed to bisection                                   *)

\* test/slab.cc: f(x) = 2*x - 5, generalised to m*x - c (c in fixed point)
Linear(f, x) == f.m * x - f.c

Eval(f, x) ==
    CASE f.kind = "linear" -> Linear(f, x)
      [] f.kind = "slab" ->
            slab_equation(f.mode, f.n1, f.n2, f.n3, f.lambda, f.W, f.j, x)
      [] f.kind = "cosh" ->
            slot_cosh_equation(f.n_clad, f.n_core, f.n_slot, f.lambda,
                               f.a, f.b, f.j, x)
      [] f.kind = "sinh" ->
            slot_sinh_equation(f.n_clad, f.n_core, f.n_slot, f.lambda,
                               f.a, f.b, f.j, x)

----------------------------------------------------------------------------
(* opt::bisection                                                           *)

\* the precondition check returning the other end of the bracket
BisectEnter_ReturnsB(f, a, b) ==
    LET fa == Eval(f, a)
        fb == Eval(f, b)
    IN  IF ProdPos(fa, fb)
        THEN [pc |-> "done", f |-> f, a0 |-> a, b0 |-> b, a |-> a, b |-> b,
              fa |-> fa, fb |-> fb, mid |-> a, fmid |-> fa, iter |-> 0,
              evals |-> <<a, b>>, updates |-> 0,
              status |-> INVALID_RANGE, iterations |-> 0,
              residual |-> StdMin(Fabs(fa), Fabs(fb)), ret |-> b,
              exit |-> "precondition"]
        ELSE LET m == Mid(a, b)
             IN  [pc |-> "loop", f |-> f, a0 |-> a, b0 |-> b, a |-> a, b |-> b,
                  fa |-> fa, fb |-> fb, mid |-> m, fmid |-> Eval(f, m),
                  iter |-> 0, evals |-> <<a, b, m>>, updates |-> 0,
                  status |-> "none", iterations |-> 0, residual |-> 0,
                  ret |-> a, exit |-> "none"]

\* lines 69-78: the two end evaluations and the precondition check
BisectEnter(f, a, b) ==
    LET fa == Eval(f, a)
        fb == Eval(f, b)
    IN  IF ProdPos(fa, fb)
        THEN [pc |-> "done", f |-> f, a0 |-> a, b0 |-> b, a |-> a, b |-> b,
              fa |-> fa, fb |-> fb, mid |-> a, fmid |-> fa, iter |-> 0,
              evals |-> <<a, b>>, updates |-> 0,
              status |-> INVALID_RANGE, iterations |-> 0,
              residual |-> StdMin(Fabs(fa), Fabs(fb)), ret |-> a,
              exit |-> "precondition"]
        ELSE LET m == Mid(a, b)
             IN  [pc |-> "loop", f |-> f, a0 |-> a, b0 |-> b, a |-> a, b |-> b,
                  fa |-> fa, fb |-> fb, mid |-> m, fmid |-> Eval(f, m),
                  iter |-> 0, evals |-> <<a, b, m>>, updates |-> 0,
                  status |-> "none", iterations |-> 0, residual |-> 0,
                  ret |-> a, exit |-> "none"]

\* a loop condition without the iteration budget
LoopCond_NoBudget(s, tol, max_iter) ==
    s.mid > tol /\ GT(Fabs(s.fmid), tol)

\* line 87: the loop condition
LoopCond(s, tol, max_iter) ==
    s.mid > tol /\ GT(Fabs(s.fmid), tol) /\ s.iter < max_iter

\* lines 89-110: one pass of the loop body
LoopBody(s, tol) ==
    LET m  == Mid(s.a, s.b)
        fm == Eval(s.f, m)
        s1 == [s EXCEPT !.mid = m, !.fmid = fm, !.evals = Append(@, m)]
    IN  IF LT(Fabs(fm), tol)
        THEN [s1 EXCEPT !.pc = "done", !.status = CONVERGED,
                        !.iterations = s.iter, !.residual = Fabs(fm),
                        !.ret = m, !.exit = "loop"]
        ELSE IF ProdNeg(s.fa, fm)
             THEN [s1 EXCEPT !.b = m, !.fb = fm, !.iter = @ + 1,
                             !.updates = @ + 1]
             ELSE [s1 EXCEPT !.a = m, !.fa = fm, !.iter = @ + 1,
                             !.updates = @ + 1]

\* lines 113-133: the last midpoint and the status decision.  The parameters
\* a and b were narrowed through the aliases pa and pb, so the endpoint test
\* of line 128 reads the current bracket.
BisectFinish(s, tol) ==
    LET m  == Mid(s.a, s.b)
        fm == Eval(s.f, m)
        st == IF s.b - s.a <= 2 * tol THEN CONVERGED ELSE DIVERGED
        near == Fabs(m - s.b) < tol \/ Fabs(m - s.a) < tol
    IN  [s EXCEPT !.pc = "done", !.mid = m, !.fmid = fm,
                  !.evals = Append(@, m),
                  !.iterations = s.iter, !.residual = Fabs(fm),
                  !.status = IF near THEN DIVERGED ELSE st,
                  !.ret = m, !.exit = "final"]

\* one step of a run that has passed the precondition check: a pass of the
\* loop while its condition holds, then the final evaluation
BisectStep(s, tol, max_iter) ==
    IF s.pc = "done" THEN s
    ELSE IF LoopCond(s, tol, max_iter) THEN LoopBody(s, tol)
    ELSE BisectFinish(s, tol)

\* n steps, split in halves to keep the evaluation shallow
RECURSIVE BisectSteps(_, _, _, _)
BisectSteps(s, n, tol, max_iter) ==
    IF s.pc = "done" \/ n = 0 THEN s
    ELSE IF n = 1 THEN BisectStep(s, tol, max_iter)
    ELSE Auto(BisectSteps(s, n \div 2, tol, max_iter),
              LAMBDA h : BisectSteps(h, n - n \div 2, tol, max_iter))

\* the loop runs at most max_iter passes, and one final step follows
bisection(f, a, b, tol, max_iter) ==
    Auto(BisectEnter(f, a, b),
         LAMBDA s : BisectSteps(s, max_iter + 1, tol, max_iter))

----------------------------------------------------------------------------
(* eim::solve_slab (PAR == 0) and eim::solve_slot_slab.  A result carries   *)
(* the returned tuple in val and, for the properties, the bracket's lower   *)
(* bound and the two bisection runs.                                        *)

\* std::get<0> and std::get<1>
Get0(t) == t.val[1]
Get1(t) == t.val[2]

\* solve_slab deciding both components by the status of the TE root-find
solve_slab_OneStatus(n1, n2, n3, lambda, W, j) ==
    LET slab_TE == [kind |-> "slab", mode |-> TE, n1 |-> n1, n2 |-> n2,
                    n3 |-> n3, lambda |-> lambda, W |-> W, j |-> j]
        slab_TM == [slab_TE EXCEPT !.mode = TM]
        nmin == StdMin(n1, n3)
    IN  Auto(bisection(slab_TE, nmin, n2, Tol, MaxIter), LAMBDA s_TE :
        Auto(bisection(slab_TM, nmin, n2, Tol, MaxIter), LAMBDA s_TM :
        [val |-> <<IF s_TE.status = CONVERGED THEN s_TE.ret ELSE nmin,
                   IF s_TE.status = CONVERGED THEN s_TM.ret ELSE nmin>>,
         nmin |-> nmin, s |-> <<s_TE, s_TM>>]))

solve_slab(n1, n2, n3, lambda, W, j) ==
    LET slab_TE == [kind |-> "slab", mode |-> TE, n1 |-> n1, n2 |-> n2,
                    n3 |-> n3, lambda |-> lambda, W |-> W, j |-> j]
        slab_TM == [slab_TE EXCEPT !.mode = TM]
        nmin == StdMin(n1, n3)
    IN  Auto(bisection(slab_TE, nmin, n2, Tol, MaxIter), LAMBDA s_TE :
        Auto(bisection(slab_TM, nmin, n2, Tol, MaxIter), LAMBDA s_TM :
        [val |-> <<IF s_TE.status = CONVERGED THEN s_TE.ret ELSE nmin,
                   IF s_TM.status = CONVERGED THEN s_TM.ret ELSE nmin>>,
         nmin |-> nmin, s |-> <<s_TE, s_TM>>]))

\* solve_slot_slab with the lower bound of solve_slab, the minimum
solve_slot_slab_MinBound(n_clad, n_core, n_slot, lambda, w_slot, w_core, j) ==
    LET a == w_slot \div 2
        b == a + w_core
        cosh_func == [kind |-> "cosh", n_clad |-> n_clad, n_core |-> n_core,
                      n_slot |-> n_slot, lambda |-> lambda, a |-> a, b |-> b,
                      j |-> j]
        sinh_func == [cosh_func EXCEPT !.kind = "sinh"]
        nmin == StdMin(n_clad, n_slot)
    IN  Auto(bisection(cosh_func, nmin, n_core, Tol, MaxIter), LAMBDA s_cosh :
        Auto(bisection(sinh_func, nmin, n_core, Tol, MaxIter), LAMBDA s_sinh :
        [val |-> <<IF s_cosh.status = CONVERGED THEN s_cosh.ret ELSE nmin,
                   IF s_sinh.status = CONVERGED THEN s_sinh.ret ELSE nmin>>,
         nmin |-> nmin, s |-> <<s_cosh, s_sinh>>]))

solve_slot_slab(n_clad, n_core, n_slot, lambda, w_slot, w_core, j) ==
    LET a == w_slot \div 2
        b == a + w_core
        cosh_func == [kind |-> "cosh", n_clad |-> n_clad, n_core |-> n_core,
                      n_slot |-> n_slot, lambda |-> lambda, a |-> a, b |-> b,
                      j |-> j]
        sinh_func == [cosh_func EXCEPT !.kind = "sinh"]
        nmin == StdMax(n_clad, n_slot)
    IN  Auto(bisection(cosh_func, nmin, n_core, Tol, MaxIter), LAMBDA s_cosh :
        Auto(bisection(sinh_func, nmin, n_core, Tol, MaxIter), LAMBDA s_sinh :
        [val |-> <<IF s_cosh.status = CONVERGED THEN s_cosh.ret ELSE nmin,
                   IF s_sinh.status = CONVERGED THEN s_sinh.ret ELSE nmin>>,
         nmin |-> nmin, s |-> <<s_cosh, s_sinh>>]))

----------------------------------------------------------------------------
(* Waveguide::operator() of the strip and waveguide::operator() of the slot *)

\* the composition feeding the lateral solve with the components of the
\* opposite polarisation
Waveguide_operator_FeedsSwapped(w) ==
    Auto(solve_slab(w.n_box, IF w.t_slab # 0 THEN w.n_core ELSE w.n_clad,
                    w.n_clad, w.wavelength, w.t_slab, 0), LAMBDA n1 :
    Auto(solve_slab(w.n_box, w.n_core, w.n_clad, w.wavelength, w.t_rib, 0),
         LAMBDA n2 :
    Auto(n1, LAMBDA n3 :
        IF w.mode = TE
        THEN Auto(solve_slab(Get1(n1), Get1(n2), Get1(n3),
                             w.wavelength, w.w_rib, w.mode_order),
                  LAMBDA neff :
                      [ret |-> Get1(neff), n1 |-> n1, n2 |-> n2, n3 |-> n3,
                       neff |-> neff])
        ELSE Auto(solve_slab(Get0(n1), Get0(n2), Get0(n3),
                             w.wavelength, w.w_rib, w.mode_order),
                  LAMBDA neff :
                      [ret |-> Get0(neff), n1 |-> n1, n2 |-> n2, n3 |-> n3,
                       neff |-> neff]))))

\* the composition returning the lateral component of the polarisation fed
Waveguide_operator_SameIndex(w) ==
    Auto(solve_slab(w.n_box, IF w.t_slab # 0 THEN w.n_core ELSE w.n_clad,
                    w.n_clad, w.wavelength, w.t_slab, 0), LAMBDA n1 :
    Auto(solve_slab(w.n_box, w.n_core, w.n_clad, w.wavelength, w.t_rib, 0),
         LAMBDA n2 :
    Auto(n1, LAMBDA n3 :
        IF w.mode = TE
        THEN Auto(solve_slab(Get0(n1), Get0(n2), Get0(n3),
                             w.wavelength, w.w_rib, w.mode_order),
                  LAMBDA neff :
                      [ret |-> Get0(neff), n1 |-> n1, n2 |-> n2, n3 |-> n3,
                       neff |-> neff])
        ELSE Auto(solve_slab(Get1(n1), Get1(n2), Get1(n3),
                             w.wavelength, w.w_rib, w.mode_order),
                  LAMBDA neff :
                      [ret |-> Get1(neff), n1 |-> n1, n2 |-> n2, n3 |-> n3,
                       neff |-> neff]))))

Waveguide_operator(w) ==
    Auto(solve_slab(w.n_box, IF w.t_slab # 0 THEN w.n_core ELSE w.n_clad,
                    w.n_clad, w.wavelength, w.t_slab, 0), LAMBDA n1 :
    Auto(solve_slab(w.n_box, w.n_core, w.n_clad, w.wavelength, w.t_rib, 0),
         LAMBDA n2 :
    Auto(n1, LAMBDA n3 :
        IF w.mode = TE
        THEN Auto(solve_slab(Get0(n1), Get0(n2), Get0(n3),
                             w.wavelength, w.w_rib, w.mode_order),
                  LAMBDA neff :
                      [ret |-> Get1(neff), n1 |-> n1, n2 |-> n2, n3 |-> n3,
                       neff |-> neff])
        ELSE Auto(solve_slab(Get1(n1), Get1(n2), Get1(n3),
                             w.wavelength, w.w_rib, w.mode_order),
                  LAMBDA neff :
                      [ret |-> Get0(neff), n1 |-> n1, n2 |-> n2, n3 |-> n3,
                       neff |-> neff]))))

\* the composition returning the odd (sinh-type) mode for TM
waveguide_operator_OddForTM(w) ==
    Auto(solve_slab(w.n_box, w.n_core, w.n_clad, w.wavelength, w.t_core, 0),
         LAMBDA neff_core :
    Auto(solve_slab(w.n_box, w.n_slot, w.n_clad, w.wavelength, w.t_core, 0),
         LAMBDA ns :
    Auto(IF w.mode = TE THEN Get0(ns) ELSE Get1(ns), LAMBDA neff_slot :
    Auto(solve_slab(w.n_box, w.n_clad, w.n_clad, w.wavelength, w.t_core, 0),
         LAMBDA neff_clad :
        IF w.mode = TE
        THEN Auto(solve_slot_slab(Get0(neff_clad), Get0(neff_core),
                                  neff_slot, w.wavelength, w.w_slot,
                                  w.w_core, w.mode_order),
                  LAMBDA neff :
                      [ret |-> Get0(neff), neff_core |-> neff_core,
                       ns |-> ns, neff_clad |-> neff_clad, neff |-> neff])
        ELSE Auto(solve_slot_slab(Get1(neff_clad), Get1(neff_core),
                                  neff_slot, w.wavelength, w.w_slot,
                                  w.w_core, w.mode_order),
                  LAMBDA neff :
                      [ret |-> Get1(neff), neff_core |-> neff_core,
                       ns |-> ns, neff_clad |-> neff_clad, neff |-> neff])))))

waveguide_operator(w) ==
    Auto(solve_slab(w.n_box, w.n_core, w.n_clad, w.wavelength, w.t_core, 0),
         LAMBDA neff_core :
    Auto(solve_slab(w.n_box, w.n_slot, w.n_clad, w.wavelength, w.t_core, 0),
         LAMBDA ns :
    Auto(IF w.mode = TE THEN Get0(ns) ELSE Get1(ns), LAMBDA neff_slot :
    Auto(solve_slab(w.n_box, w.n_clad, w.n_clad, w.wavelength, w.t_core, 0),
         LAMBDA neff_clad :
        IF w.mode = TE
        THEN Auto(solve_slot_slab(Get0(neff_clad), Get0(neff_core),
                                  neff_slot, w.wavelength, w.w_slot,
                                  w.w_core, w.mode_order),
                  LAMBDA neff :
                      [ret |-> Get0(neff), neff_core |-> neff_core,
                       ns |-> ns, neff_clad |-> neff_clad, neff |-> neff])
        ELSE Auto(solve_slot_slab(Get1(neff_clad), Get1(neff_core),
                                  neff_slot, w.wavelength, w.w_slot,
                                  w.w_core, w.mode_order),
                  LAMBDA neff :
                      [ret |-> Get0(neff), neff_core |-> neff_core,
                       ns |-> ns, neff_clad |-> neff_clad, neff |-> neff])))))

\* the members of the object after a call: the bodies of operator() and
\* mode_2D read the members and assign to locals and to the field matrix
\* only, and the solvers they call take their arguments by value
Waveguide_this(w) == w

Waveguide_mode_2D_this(w) == w

\* the slot bundle with operator() keeping its slot-region index in n_slot
waveguide_this_KeepsSlotIndex(w) ==
    [w EXCEPT !.n_slot =
        IF w.mode = TE
        THEN Get0(solve_slab(w.n_box, w.n_slot, w.n_clad, w.wavelength,
                             w.t_core, 0))
        ELSE Get1(solve_slab(w.n_box, w.n_slot, w.n_clad, w.wavelength,
                             w.t_core, 0))]

waveguide_this(w) == w

----------------------------------------------------------------------------
(* Inputs                                                                   *)

\* highest mode order requested
MaxOrder == 2

Orders == 0 .. MaxOrder

\* refractive indices: air 1.0, oxide 1.44, nitride 2.0, silicon 3.47
Indices == {10000, 14400, 20000, 34700}

Wavelengths == {15500}

\* thicknesses and widths in micrometres: 0, 0.09, 0.22 and 0.1, 0.5
Thicknesses == {0, 900, 2200}
Widths == {1000, 5000}
Gaps == {0, 1000}
CoreWidths == {2500}

\* linear test functions m*x - c: the test's 2x - 5, its mirror image, a
\* root at 2.5 - 3 tol, and slopes too steep for any grid point to fall
\* within the tolerance of the root
LinearFunctions ==
    {[kind |-> "linear", m |-> 2, c |-> 5 * One],
     [kind |-> "linear", m |-> 0 - 2, c |-> 0 - 5 * One],
     [kind |-> "linear", m |-> 2, c |-> 0 - 5 * One],
     [kind |-> "linear", m |-> 3, c |-> 3 * 25000 - 9 * Tol],
     [kind |-> "linear", m |-> 4 * Tol, c |-> 4 * Tol * 25000 + 2 * Tol],
     [kind |-> "linear", m |-> 0 - 4 * Tol, c |-> 0 - 4 * Tol * 25000 - 2 * Tol]}

Ends == {0 - 6 * One, 0 - One, 0, One, 25000 - Tol, 25000, 25000 + Tol,
         3 * One, 6 * One}

StripBundles ==
    [wavelength : Wavelengths, t_rib : {2200}, t_slab : {0, 900},
     w_rib : Widths, w_slab : {0}, n_box : {10000, 14400},
     n_core : {34700}, n_clad : {10000, 14400}, mode_order : Orders,
     mode : {TE, TM}]

SlotBundles ==
    [wavelength : Wavelengths, t_core : {2200}, w_core : CoreWidths,
     w_slot : Gaps, n_box : {14400}, n_clad : {10000, 14400},
     n_core : {28000, 34700}, n_slot : {10000, 14400, 20000},
     mode_order : Orders,
     mode : {TE, TM}]

----------------------------------------------------------------------------
(* The callers: a test calls bisection or a solver once, main builds a      *)
(* bundle and sweeps its fields, calling operator() in every iteration.     *)

\* the bundles a sweep starts with: eim.cc keeps the default width 0.5 and
\* order 0, the command line tool takes the first wavelength, gap and order
FirstStrip(w) == w.wavelength = 15500 /\ w.w_rib = 5000 /\ w.mode_order = 0
FirstSlot(w) == w.wavelength = 15500 /\ w.w_slot = 0 /\ w.mode_order = 0

Idle == op = "none" /\ args = <<>> /\ res = <<>>

\* the parts of the program a specification does not run
AsyncOff ==
    /\ apc = "off" /\ ain = <<>> /\ task = <<>> /\ ex_ptr = 0
    /\ abort = FALSE /\ completed = 0 /\ slots = <<>> /\ caught = <<>>

ParOff ==
    /\ ppc = "off" /\ pin = <<>> /\ te_mode = <<>> /\ tm_mode = <<>>
    /\ pret = <<>>

CliOff ==
    /\ argv = <<>> /\ mpc = "off" /\ ctx = <<>> /\ cur = <<>> /\ rows = <<>>
    /\ solves = 0 /\ status = 0

LibOff ==
    /\ wg = [wavelength |-> 15500, t_rib |-> 2200, t_slab |-> 0,
             w_rib |-> 1000, w_slab |-> 0, n_box |-> 14400, n_core |-> 34700,
             n_clad |-> 14400, mode_order |-> 0, mode |-> TE]
    /\ swg = [wavelength |-> 15500, t_core |-> 2200, w_core |-> 2500,
              w_slot |-> 0, n_box |-> 14400, n_clad |-> 14400,
              n_core |-> 34700, n_slot |-> 14400, mode_order |-> 0,
              mode |-> TE]
    /\ Idle

\* library calls made by the tests; the bundles are the README's example
Init ==
    /\ wg = [wavelength |-> 15500, t_rib |-> 2200, t_slab |-> 0,
             w_rib |-> 1000, w_slab |-> 0, n_box |-> 14400, n_core |-> 34700,
             n_clad |-> 14400, mode_order |-> 0, mode |-> TE]
    /\ swg = [wavelength |-> 15500, t_core |-> 2200, w_core |-> 2500,
              w_slot |-> 0, n_box |-> 14400, n_clad |-> 14400,
              n_core |-> 34700, n_slot |-> 14400, mode_order |-> 0,
              mode |-> TE]
    /\ Idle
    /\ AsyncOff /\ ParOff /\ CliOff

\* main of eim.cc: the defaults overwritten by the options -m, -n, -s
InitStrip ==
    /\ wg \in {w \in StripBundles : FirstStrip(w)}
    /\ swg = [wavelength |-> 15500, t_core |-> 2200, w_core |-> 2500,
              w_slot |-> 0, n_box |-> 14400, n_clad |-> 14400,
              n_core |-> 34700, n_slot |-> 14400, mode_order |-> 0,
              mode |-> TE]
    /\ Idle
    /\ AsyncOff /\ ParOff /\ CliOff

\* main of the command line tool with a slot device
InitSlot ==
    /\ wg = [wavelength |-> 15500, t_rib |-> 2200, t_slab |-> 0,
             w_rib |-> 1000, w_slab |-> 0, n_box |-> 14400, n_core |-> 34700,
             n_clad |-> 14400, mode_order |-> 0, mode |-> TE]
    /\ swg \in {w \in SlotBundles : FirstSlot(w)}
    /\ Idle
    /\ AsyncOff /\ ParOff /\ CliOff

CallBisection ==
    /\ op = "none"
    /\ \E f \in LinearFunctions, a \in Ends, b \in Ends :
          /\ op' = "bisection"
          /\ args' = [f |-> f, a |-> a, b |-> b]
          /\ res' = bisection(f, a, b, Tol, MaxIter)
    /\ UNCHANGED <<wg, swg, asyncVars, parVars, cliVars>>

CallSolveSlab ==
    /\ op = "none"
    /\ \E n1 \in Indices, n2 \in Indices, n3 \in Indices,
          lambda \in Wavelengths, W \in Thicknesses \cup Widths, j \in Orders :
          /\ op' = "solve_slab"
          /\ args' = [n1 |-> n1, n2 |-> n2, n3 |-> n3, lambda |-> lambda,
                      W |-> W, j |-> j]
          /\ res' = solve_slab(n1, n2, n3, lambda, W, j)
    /\ UNCHANGED <<wg, swg, asyncVars, parVars, cliVars>>

CallSolveSlotSlab ==
    /\ op = "none"
    /\ \E n_clad \in {14400, 20000}, n_core \in {28000, 34700},
          n_slot \in {10000, 14400, 20000}, lambda \in Wavelengths,
          w_slot \in Gaps, w_core \in {2500, 5000}, j \in Orders :
          /\ op' = "solve_slot_slab"
          /\ args' = [n_clad |-> n_clad, n_core |-> n_core, n_slot |-> n_slot,
                      lambda |-> lambda, w_slot |-> w_slot, w_core |-> w_core,
                      j |-> j]
          /\ res' = solve_slot_slab(n_clad, n_core, n_slot, lambda, w_slot,
                                    w_core, j)
    /\ UNCHANGED <<wg, swg, asyncVars, parVars, cliVars>>

\* main of eim.cc, lines 327-337: one iteration of the sweep assigns the
\* width and the mode order and prints the value of wg()
SweepStrip ==
    /\ \E w \in Widths, j \in Orders :
          /\ args' = [wg EXCEPT !.w_rib = w, !.mode_order = j]
          /\ op' = "Waveguide"
          /\ res' = Waveguide_operator(args')
          /\ wg' = Waveguide_this(args')
    /\ UNCHANGED <<swg, asyncVars, parVars, cliVars>>

\* main of the command line tool, lines 378-400: one iteration of the
\* sweep assigns wavelength, gap, width and mode order and prints wg()
SweepSlot ==
    /\ \E l \in Wavelengths, g \in Gaps, w \in CoreWidths, j \in Orders :
          /\ args' = [swg EXCEPT !.wavelength = l, !.w_slot = g,
                                 !.w_core = w, !.mode_order = j]
          /\ op' = "waveguide"
          /\ res' = waveguide_operator(args')
          /\ swg' = waveguide_this(args')
    /\ UNCHANGED <<wg, asyncVars, parVars, cliVars>>

Next ==
    \/ CallBisection
    \/ CallSolveSlab
    \/ CallSolveSlotSlab

Spec == Init /\ [][Next]_vars

NextStrip == SweepStrip

SpecStrip == InitStrip /\ [][NextStrip]_vars

NextSlot == SweepSlot

SpecSlot == InitSlot /\ [][NextSlot]_vars

----------------------------------------------------------------------------
(* async_for_each of async.h, called by mode_1D (PAR == 2) with a callable  *)
(* of one argument that writes the output slot of its element.  Positions   *)
(* of the range are 0 .. size - 1; chunk i is task[i + 1].                  *)

\* longest range and highest thread count requested
MaxSamples == 4
MaxThreads == 3

\* line 68: threads = std::min(threads, size)
Threads(in) == IF in.threads < in.size THEN in.threads ELSE in.size

\* line 69
ChunkSize(in) == in.size \div Threads(in)

\* a chunk end that gives every chunk chunk_size elements
ChunkEnd_NoRemainder(in, i, chunk_begin) == chunk_begin + ChunkSize(in)

\* line 80: the last chunk ends at end
ChunkEnd(in, i, chunk_begin) ==
    IF i = Threads(in) - 1 THEN in.size ELSE chunk_begin + ChunkSize(in)

\* a catch block that stores its exception whatever is stored already
Retain_Last(ptr, e) == e

\* lines 103-107: the exception is stored if none is stored yet
Retain(ptr, e) == IF ptr = 0 THEN e ELSE ptr

AsyncInputs ==
    {in \in [size : 0 .. MaxSamples, threads : 0 .. MaxThreads,
             throws : SUBSET (0 .. MaxSamples - 1)] :
        \A p \in in.throws : p < in.size}

InitAsync ==
    /\ LibOff /\ ParOff /\ CliOff
    /\ ain \in AsyncInputs
    /\ apc = [at |-> "entry", i |-> 0, thrown |-> 0]
    /\ task = <<>>
    /\ ex_ptr = 0
    /\ abort = FALSE
    /\ completed = 0
    /\ slots = [p \in 0 .. ain.size - 1 |-> <<>>]
    /\ caught = <<>>

\* lines 65-77.  With threads = 0, size / threads of line 69 is an integer
\* division by zero, which is undefined: the build either traps, or carries
\* on with some chunk_size, and with threads = 0 the vector of futures is
\* empty and neither the launch loop nor the join loop has a pass.
AfeEnter ==
    /\ apc.at = "entry"
    /\ \E at \in (IF ain.size = 0 THEN {"returned"}
                   ELSE IF Threads(ain) = 0 THEN {"trapped", "join"}
                   ELSE {"launch"}) :
          apc' = [apc EXCEPT !.at = at]
    /\ UNCHANGED <<ain, task, ex_ptr, abort, completed, slots, caught>>
    /\ UNCHANGED <<libVars, parVars, cliVars>>

\* lines 78-111: one pass of the launch loop; the task starts at once
AfeLaunch ==
    /\ apc.at = "launch"
    /\ LET i == apc.i
           chunk_begin == IF i = 0 THEN 0 ELSE task[i].chunk_end
           chunk_end == ChunkEnd(ain, i, chunk_begin)
       IN  /\ task' = Append(task, [chunk_begin |-> chunk_begin,
                                    chunk_end |-> chunk_end,
                                    it |-> chunk_begin, pc |-> "loop"])
           /\ apc' = IF i + 1 < Threads(ain)
                     THEN [apc EXCEPT !.i = i + 1]
                     ELSE [apc EXCEPT !.at = "join", !.i = 0]
    /\ UNCHANGED <<ain, ex_ptr, abort, completed, slots, caught>>
    /\ UNCHANGED <<libVars, parVars, cliVars>>

\* line 87: idx of chunk i, set once before the loop of the task
Idx(i) == i * (task[i + 1].chunk_end - task[i + 1].chunk_begin)

\* lines 87-98: one pass of the loop of chunk k - 1, or its exit.  The
\* callable of mode_1D writes slot &xi - &x[0]; a callable of two arguments
\* is handed idx as well; progress is nullptr.
TaskStep(k) ==
    /\ k \in 1 .. Len(task)
    /\ task[k].pc = "loop"
    /\ LET it == task[k].it
       IN  IF it # task[k].chunk_end /\ ~abort
           THEN IF it \in ain.throws
                THEN /\ task' = [task EXCEPT ![k].pc = "catch"]
                     /\ UNCHANGED <<slots, completed>>
                ELSE /\ slots' = [slots EXCEPT
                                      ![it] = Append(@, [by |-> k, from |-> it,
                                                         idx |-> Idx(k - 1)])]
                     /\ task' = [task EXCEPT ![k].it = it + 1]
                     /\ UNCHANGED completed
           ELSE /\ completed' = completed + 1
                /\ task' = [task EXCEPT ![k].pc = "done"]
                /\ UNCHANGED slots
    /\ UNCHANGED <<apc, ain, ex_ptr, abort, caught>>
    /\ UNCHANGED <<libVars, parVars, cliVars>>

\* lines 100-108: the catch block, under ex_mutex
TaskCatch(k) ==
    /\ k \in 1 .. Len(task)
    /\ task[k].pc = "catch"
    /\ ex_ptr' = Retain(ex_ptr, k)
    /\ abort' = (abort \/ ex_ptr = 0)
    /\ caught' = Append(caught, k)
    /\ task' = [task EXCEPT ![k].pc = "done"]
    /\ UNCHANGED <<apc, ain, completed, slots>>
    /\ UNCHANGED <<libVars, parVars, cliVars>>

\* lines 113-128: fut.get() on the next future returns when its task is over;
\* the task catches every exception, so get() never throws
AfeJoin ==
    /\ apc.at = "join"
    /\ apc.i < Threads(ain)
    /\ task[apc.i + 1].pc = "done"
    /\ apc' = [apc EXCEPT !.i = apc.i + 1]
    /\ UNCHANGED <<ain, task, ex_ptr, abort, completed, slots, caught>>
    /\ UNCHANGED <<libVars, parVars, cliVars>>

\* lines 131-134
AfeExit ==
    /\ apc.at = "join"
    /\ apc.i = Threads(ain)
    /\ apc' = IF ex_ptr # 0
              THEN [apc EXCEPT !.at = "threw", !.thrown = ex_ptr]
              ELSE [apc EXCEPT !.at = "returned"]
    /\ UNCHANGED <<ain, task, ex_ptr, abort, completed, slots, caught>>
    /\ UNCHANGED <<libVars, parVars, cliVars>>

NextAsync ==
    \/ AfeEnter
    \/ AfeLaunch
    \/ \E k \in 1 .. MaxThreads : TaskStep(k)
    \/ \E k \in 1 .. MaxThreads : TaskCatch(k)
    \/ AfeJoin
    \/ AfeExit

SpecAsync == InitAsync /\ [][NextAsync]_vars

----------------------------------------------------------------------------
(* solve_slab with PAR > 0: the TE and the TM root-find run as two tasks    *)
(* started by call_async; the caller takes both futures and makes the tuple *)

\* lines 119-125 and 127-132: the body of a task
ParTask(mode, a) ==
    LET f == [kind |-> "slab", mode |-> mode, n1 |-> a.n1, n2 |-> a.n2,
              n3 |-> a.n3, lambda |-> a.lambda, W |-> a.W, j |-> a.j]
        nmin == StdMin(a.n1, a.n3)
    IN  Auto(bisection(f, nmin, a.n2, Tol, MaxIter), LAMBDA s :
            IF s.status = CONVERGED THEN s.ret ELSE nmin)

\* a tuple with the TM value first
ParTuple_Swapped(te, tm) == <<tm, te>>

\* line 133: std::make_tuple(te_mode.get(), tm_mode.get())
ParTuple(te, tm) == <<te, tm>>

ParInputs ==
    [n1 : {10000, 14400}, n2 : {14400, 34700}, n3 : {10000, 14400},
     lambda : Wavelengths, W : Thicknesses \cup Widths, j : Orders]

NoTask == [pc |-> "none", val |-> 0, rank |-> 0]

InitPar ==
    /\ LibOff /\ AsyncOff /\ CliOff
    /\ pin \in ParInputs
    /\ ppc = "te"
    /\ te_mode = NoTask
    /\ tm_mode = NoTask
    /\ pret = <<>>

\* the tasks that have finished
Finished == {t \in {te_mode, tm_mode} : t.pc \in {"ready", "taken"}}

\* line 119: call_async starts the TE task
ParLaunchTE ==
    /\ ppc = "te"
    /\ te_mode' = [te_mode EXCEPT !.pc = "running"]
    /\ ppc' = "tm"
    /\ UNCHANGED <<pin, tm_mode, pret>>
    /\ UNCHANGED <<libVars, asyncVars, cliVars>>

\* line 127: call_async starts the TM task
ParLaunchTM ==
    /\ ppc = "tm"
    /\ tm_mode' = [tm_mode EXCEPT !.pc = "running"]
    /\ ppc' = "get"
    /\ UNCHANGED <<pin, te_mode, pret>>
    /\ UNCHANGED <<libVars, asyncVars, cliVars>>

\* lines 120-123: the TE task runs to its end
ParRunTE ==
    /\ te_mode.pc = "running"
    /\ te_mode' = [pc |-> "ready", val |-> ParTask(TE, pin),
                   rank |-> Cardinality(Finished)]
    /\ UNCHANGED <<ppc, pin, tm_mode, pret>>
    /\ UNCHANGED <<libVars, asyncVars, cliVars>>

\* lines 128-131: the TM task runs to its end
ParRunTM ==
    /\ tm_mode.pc = "running"
    /\ tm_mode' = [pc |-> "ready", val |-> ParTask(TM, pin),
                   rank |-> Cardinality(Finished)]
    /\ UNCHANGED <<ppc, pin, te_mode, pret>>
    /\ UNCHANGED <<libVars, asyncVars, cliVars>>

\* line 133: te_mode.get(); the two get() calls are arguments of one call,
\* so either may come first
ParGetTE ==
    /\ ppc = "get"
    /\ te_mode.pc = "ready"
    /\ te_mode' = [te_mode EXCEPT !.pc = "taken"]
    /\ UNCHANGED <<ppc, pin, tm_mode, pret>>
    /\ UNCHANGED <<libVars, asyncVars, cliVars>>

\* line 133: tm_mode.get()
ParGetTM ==
    /\ ppc = "get"
    /\ tm_mode.pc = "ready"
    /\ tm_mode' = [tm_mode EXCEPT !.pc = "taken"]
    /\ UNCHANGED <<ppc, pin, te_mode, pret>>
    /\ UNCHANGED <<libVars, asyncVars, cliVars>>

\* line 133: the tuple is made of the two values and returned
ParReturn ==
    /\ ppc = "get"
    /\ te_mode.pc = "taken" /\ tm_mode.pc = "taken"
    /\ pret' = ParTuple(te_mode.val, tm_mode.val)
    /\ ppc' = "returned"
    /\ UNCHANGED <<pin, te_mode, tm_mode>>
    /\ UNCHANGED <<libVars, asyncVars, cliVars>>

NextPar ==
    \/ ParLaunchTE
    \/ ParLaunchTM
    \/ ParRunTE
    \/ ParRunTM
    \/ ParGetTE
    \/ ParGetTM
    \/ ParReturn

SpecPar == InitPar /\ [][NextPar]_vars

----------------------------------------------------------------------------
(* main of the command line tool                                            *)

STRIP == "STRIP"
SLOT == "SLOT"

\* an optional bound that is not given
nullopt == "nullopt"

\* parse_numeric: the values of the list in order; a value below min or
\* above max throws
parse_numeric(list, min, max) ==
    IF \E k \in 1 .. Len(list) :
          \/ (min # nullopt /\ list[k] < min)
          \/ (max # nullopt /\ list[k] > max)
    THEN [thrown |-> TRUE, result |-> <<>>]
    ELSE [thrown |-> FALSE, result |-> list]

\* the values of the options: -t, -m, -l, -w, -S, -j, -n, -r, -s, -O, -p, -e
DeviceStrings == {"strip", "slot", "ring"}
ModeStrings == {"TE", "TM", "TX"}
WavelengthLists == {<<>>, <<15500>>, <<15500, 13100>>, <<0, 15500>>}
WidthLists == {<<>>, <<5000>>, <<1000, 5000>>, <<5000, 5000>>}
GapLists == {<<>>, <<0, 1000>>}
OrderLists == {<<>>, <<0>>, <<0, 2>>}
IndexLists ==
    {<<14400, 34700, 10000, 14400>>, <<0, 34700, 10000, 14400>>,
     <<14400, 0, 10000, 14400>>, <<14400, 34700, 0, 14400>>,
     <<14400, 34700, 10000, 0>>}
CoreThicknesses == {0, 2200}
LogOptions ==
    {[O |-> FALSE, p |-> 0, e |-> 0], [O |-> TRUE, p |-> 0, e |-> One],
     [O |-> TRUE, p |-> 2, e |-> 0], [O |-> TRUE, p |-> 2, e |-> One]}

CommandLines ==
    [t : DeviceStrings, m : ModeStrings, l : WavelengthLists,
     w : WidthLists, S : GapLists, j : OrderLists, n : IndexLists,
     r : CoreThicknesses, log : LogOptions]

\* std::make_unique<ctl>(): every member zero, the mode TE
NewCtl ==
    [device |-> STRIP, t_core |-> 0, t_slab |-> 0, w_slot |-> 0,
     n_box |-> 0, n_core |-> 0, n_clad |-> 0, n_slot |-> 0, mode |-> TE,
     pts |-> 0, extent |-> 0, wavelengths |-> <<>>, mode_orders |-> <<>>,
     widths |-> <<>>, gaps |-> <<>>, mode_log |-> FALSE]

InitCli ==
    /\ LibOff /\ AsyncOff /\ ParOff
    /\ argv \in CommandLines
    /\ mpc = "parse" /\ ctx = NewCtl /\ cur = <<>> /\ rows = <<>>
    /\ solves = 0 /\ status = 0

\* lines 59-205: the option loop; a device or mode string that is not
\* known, or an exception of a parser, returns -1
MainParse ==
    /\ mpc = "parse"
    /\ LET j == parse_numeric(argv.j, nullopt, nullopt)
           l == parse_numeric(argv.l, nullopt, nullopt)
           S == parse_numeric(argv.S, nullopt, nullopt)
           w == parse_numeric(argv.w, nullopt, nullopt)
       IN  IF \/ argv.t \notin {"strip", "slot"}
              \/ argv.m \notin {"TE", "TM"}
              \/ j.thrown \/ l.thrown \/ S.thrown \/ w.thrown
           THEN /\ status' = 0 - 1
                /\ mpc' = "exit"
                /\ ctx' = ctx
           ELSE /\ ctx' = [device |-> IF argv.t = "strip" THEN STRIP ELSE SLOT,
                           t_core |-> argv.r, t_slab |-> 0, w_slot |-> 0,
                           n_box |-> argv.n[1], n_core |-> argv.n[2],
                           n_clad |-> argv.n[3], n_slot |-> argv.n[4],
                           mode |-> IF argv.m = "TE" THEN TE ELSE TM,
                           pts |-> argv.log.p, extent |-> argv.log.e,
                           wavelengths |-> l.result,
                           mode_orders |-> j.result, widths |-> w.result,
                           gaps |-> S.result, mode_log |-> argv.log.O]
                /\ mpc' = "validate"
                /\ status' = status
    /\ UNCHANGED <<argv, cur, rows, solves, libVars, asyncVars, parVars>>

\* the validation without the test of the core thickness
Rejected_AnyThickness(c) ==
    \/ c.wavelengths = <<>>
    \/ c.widths = <<>>
    \/ c.mode_orders = <<>>
    \/ c.n_core = 0 \/ c.n_clad = 0 \/ c.n_box = 0
    \/ (c.device = SLOT /\ c.gaps = <<>>)
    \/ (c.device # STRIP /\ c.device # SLOT)
    \/ (c.mode_log /\ (c.pts = 0 \/ c.extent = 0))

\* lines 207-271
Rejected(c) ==
    \/ c.wavelengths = <<>>
    \/ c.widths = <<>>
    \/ c.mode_orders = <<>>
    \/ c.n_core = 0 \/ c.n_clad = 0 \/ c.n_box = 0
    \/ c.t_core = 0
    \/ (c.device = SLOT /\ c.gaps = <<>>)
    \/ (c.device # STRIP /\ c.device # SLOT)
    \/ (c.mode_log /\ (c.pts = 0 \/ c.extent = 0))

\* lines 277-288 and 362-373: the bundle built from the first elements
NewStrip(c) ==
    [wavelength |-> c.wavelengths[1], t_rib |-> c.t_core,
     t_slab |-> c.t_slab, w_rib |-> c.widths[1], w_slab |-> 0,
     n_box |-> c.n_box, n_core |-> c.n_core, n_clad |-> c.n_clad,
     mode_order |-> c.mode_orders[1], mode |-> c.mode]

NewSlot(c) ==
    [wavelength |-> c.wavelengths[1], t_core |-> c.t_core,
     w_core |-> c.widths[1], w_slot |-> c.gaps[1], n_box |-> c.n_box,
     n_clad |-> c.n_clad, n_core |-> c.n_core, n_slot |-> c.n_slot,
     mode_order |-> c.mode_orders[1], mode |-> c.mode]

\* lines 207-290 and 360-375: validation, then the bundle and the header
MainValidate ==
    /\ mpc = "validate"
    /\ IF Rejected(ctx)
       THEN /\ status' = 0 - 1
            /\ mpc' = "exit"
            /\ UNCHANGED <<cur, wg, swg>>
       ELSE /\ status' = status
            /\ IF ctx.device = STRIP
               THEN /\ mpc' = "strip"
                    /\ cur' = <<1, 1, 1>>
                    /\ wg' = NewStrip(ctx)
                    /\ swg' = swg
               ELSE /\ mpc' = "slot"
                    /\ cur' = <<1, 1, 1, 1>>
                    /\ swg' = NewSlot(ctx)
                    /\ wg' = wg
    /\ UNCHANGED <<argv, ctx, rows, solves, op, args, res, asyncVars, parVars>>

\* the loops of a nest that have iterations left; lens are their lengths
Open(c, lens) == {i \in 1 .. Len(c) : c[i] < lens[i]}

\* the same nest with every loop but the innermost run once
Advance_LeavesEarly(c, lens) ==
    IF Len(c) \notin Open(c, lens) THEN <<>>
    ELSE [c EXCEPT ![Len(c)] = c[Len(c)] + 1]

\* the loop indices after one more iteration of the innermost loop: the
\* innermost loop with iterations left advances and the loops inside it
\* start again; <<>> when the nest is left
Advance(c, lens) ==
    IF Open(c, lens) = {} THEN <<>>
    ELSE LET i == CHOOSE i \in Open(c, lens) :
                      \A m \in Open(c, lens) : m <= i
         IN  [k \in 1 .. Len(c) |->
                 IF k < i THEN c[k] ELSE IF k = i THEN c[k] + 1 ELSE 1]

StripLens(c) == <<Len(c.wavelengths), Len(c.widths), Len(c.mode_orders)>>
SlotLens(c) ==
    <<Len(c.wavelengths), Len(c.gaps), Len(c.widths), Len(c.mode_orders)>>

\* wg() of the strip: Strip::operator() is defined in strip.h, which is not
\* among the sources, so its value is carried as the application itself
Strip_operator(w) == <<"Strip::operator()", w>>

\* the value of wg() where the fixed-point functions do not reach: they
\* cover positive wavelengths, and with k0 = 2 pi / lambda infinite or
\* negative the double printed is left uninterpreted
Uninterpreted == "uninterpreted"

\* wg() of the slot
SlotValue(w) ==
    IF w.wavelength > 0
    THEN Auto(w, LAMBDA b : Auto(waveguide_operator(b), LAMBDA r : r.ret))
    ELSE Uninterpreted

\* lines 295-302 and 380-390: the assignments of the loops to the bundle
\* at the loop indices i
StripAssigned(w, c, i) ==
    [w EXCEPT !.wavelength = c.wavelengths[i[1]], !.w_rib = c.widths[i[2]],
              !.mode_order = c.mode_orders[i[3]]]

SlotAssigned(w, c, i) ==
    [w EXCEPT !.wavelength = c.wavelengths[i[1]], !.w_slot = c.gaps[i[2]],
              !.w_core = c.widths[i[3]], !.mode_order = c.mode_orders[i[4]]]

\* lines 303-310 and 391-398: the row printed for a bundle
StripRow(b) ==
    [t_slab |-> b.t_slab, t_rib |-> b.t_rib, width |-> b.w_rib,
     wavelength |-> b.wavelength, mode |-> b.mode,
     mode_order |-> b.mode_order, neff |-> Strip_operator(b)]

SlotRow(b) ==
    [t_core |-> b.t_core, w_core |-> b.w_core, w_slot |-> b.w_slot,
     wavelength |-> b.wavelength, mode |-> b.mode,
     mode_order |-> b.mode_order, neff |-> SlotValue(b)]

\* lines 293-311: one iteration of the innermost loop of the strip sweep;
\* the members of Strip are those of Waveguide of eim.cc, whose operator()
\* stands for the one of strip.h in what it does to the members
MainStripRow ==
    /\ mpc = "strip"
    /\ rows' = Append(rows, StripRow(StripAssigned(wg, ctx, cur)))
    /\ wg' = Waveguide_this(StripAssigned(wg, ctx, cur))
    /\ solves' = solves + 1
    /\ cur' = Advance(cur, StripLens(ctx))
    /\ mpc' = IF cur' # <<>> THEN "strip"
              ELSE IF ctx.mode_log THEN "log" ELSE "return"
    /\ UNCHANGED <<argv, ctx, status, swg, op, args, res, asyncVars, parVars>>

\* lines 378-400: one iteration of the innermost loop of the slot sweep
MainSlotRow ==
    /\ mpc = "slot"
    /\ rows' = Append(rows, SlotRow(SlotAssigned(swg, ctx, cur)))
    /\ swg' = waveguide_this(SlotAssigned(swg, ctx, cur))
    /\ solves' = solves + 1
    /\ cur' = Advance(cur, SlotLens(ctx))
    /\ mpc' = IF cur' # <<>> THEN "slot" ELSE "return"
    /\ UNCHANGED <<argv, ctx, status, wg, op, args, res, asyncVars, parVars>>

\* lines 313-358: the field log of the strip, every sweep point again with
\* one call of mode_2D each, written to the log file; the bundle is left
\* as the last iteration leaves it
MainLogMode ==
    /\ mpc = "log"
    /\ solves' = solves + Len(ctx.wavelengths) * Len(ctx.widths)
                          * Len(ctx.mode_orders)
    /\ wg' = Waveguide_mode_2D_this(StripAssigned(wg, ctx, StripLens(ctx)))
    /\ mpc' = "return"
    /\ UNCHANGED <<argv, ctx, cur, rows, status, swg, op, args, res,
                   asyncVars, parVars>>

\* line 413
MainReturn ==
    /\ mpc = "return"
    /\ status' = 0
    /\ mpc' = "exit"
    /\ UNCHANGED <<argv, ctx, cur, rows, solves, libVars, asyncVars, parVars>>

NextCli ==
    \/ MainParse
    \/ MainValidate
    \/ MainStripRow
    \/ MainSlotRow
    \/ MainLogMode
    \/ MainReturn

SpecCli == InitCli /\ [][NextCli]_vars

----------------------------------------------------------------------------
(* Properties                                                               *)

SolverCall == op \in {"solve_slab", "solve_slot_slab"}

\* the lower end of the bracket the specification gives for the call
LowerBound ==
    IF op = "solve_slab"
    THEN (IF args.n1 < args.n3 THEN args.n1 ELSE args.n3)
    ELSE (IF args.n_clad > args.n_slot THEN args.n_clad ELSE args.n_slot)

\* the upper end of the bracket: the core index
UpperBound == IF op = "solve_slab" THEN args.n2 ELSE args.n_core

\* C1: each component of the result of solve_slab and of solve_slot_slab is
\* the value its own root-find returned when that root-find is CONVERGED and
\* the lower bound of the bracket (min(n1,n3), resp. max(n_clad,n_slot))
\* when it is DIVERGED or INVALID_RANGE, whatever the other root-find did.
C1_FallbackPolicy ==
    SolverCall =>
        \A i \in {1, 2} :
            /\ res.s[i].a0 = LowerBound /\ res.s[i].b0 = UpperBound
            /\ res.s[i].status = CONVERGED => res.val[i] = res.s[i].ret
            /\ res.s[i].status \in {DIVERGED, INVALID_RANGE}
                  => res.val[i] = LowerBound
            /\ res.s[i].status \in {CONVERGED, DIVERGED, INVALID_RANGE}

\* an asymmetric slab: one root-find converged to an interior root and the
\* other one failed
C1_Witness ==
    /\ op = "solve_slab"
    /\ args.n1 # args.n3
    /\ res.s[1].status = CONVERGED
    /\ res.s[2].status = DIVERGED
    /\ res.val[1] # LowerBound
    /\ res.val[2] = LowerBound

\* the residual has the same strict sign at both ends of the bracket
SameSign(i) ==
    ProdPos(Eval(res.s[i].f, LowerBound), Eval(res.s[i].f, UpperBound))

\* C2: when the residual has the same strict sign at both ends of the
\* bracket, the component is exactly the lower bound of the bracket, which
\* is a number inside the bracket.
C2_FallbackDeterminism ==
    SolverCall =>
        \A i \in {1, 2} :
            SameSign(i) =>
                /\ res.val[i] = LowerBound
                /\ ~IsNaN(res.val[i])
                /\ LowerBound <= res.val[i] /\ res.val[i] <= UpperBound

\* a slot solve of an order too high for a mode, with n_clad # n_slot
C2_Witness ==
    /\ op = "solve_slot_slab"
    /\ args.n_clad # args.n_slot
    /\ args.j > 0
    /\ SameSign(1) /\ SameSign(2)
    /\ res.val = <<LowerBound, LowerBound>>

C4_LinearRootFound ==
    (op = "bisection"
     /\ args.f.m # 0 /\ Fabs(args.f.m) < Tol
     /\ ProdNeg(Eval(args.f, args.a), Eval(args.f, args.b))) =>
        /\ res.status = CONVERGED
        /\ Fabs(Eval(args.f, res.ret)) < Tol

\* C5: when the loop ends without returning, the status is CONVERGED exactly
\* when the half-width of the remaining bracket is <= tol and the final
\* midpoint is not within tol of an endpoint the caller passed; otherwise
\* it is DIVERGED.
C5_FinalStatusRule ==
    (op = "bisection" /\ res.exit = "final") =>
        /\ res.status = CONVERGED <=>
              (/\ res.b - res.a <= 2 * Tol
               /\ ~(Fabs(res.ret - args.a) < Tol)
               /\ ~(Fabs(res.ret - args.b) < Tol))
        /\ res.status \in {CONVERGED, DIVERGED}

\* C9: for n2 > max(n1,n3) the root finder evaluates the characteristic
\* equation only at trial indices of the band [max(n1,n3), n2], where the
\* three radicands are non-negative.
C9_DomainSafety ==
    (op = "solve_slab"
     /\ args.n2 > args.n1 /\ args.n2 > args.n3) =>
        \A i \in {1, 2} :
            \A k \in 1 .. Len(res.s[i].evals) :
                LET x == res.s[i].evals[k]
                IN  /\ x >= args.n1 /\ x >= args.n3 /\ x <= args.n2
                    /\ ~IsNaN(Eval(res.s[i].f, x))

\* C10: when the core index does not exceed both bounding indices, both
\* components are the fallback min(n1,n3).
C10_NoGuidedMode ==
    (op = "solve_slab"
     /\ (args.n2 <= args.n1 \/ args.n2 <= args.n3)) =>
        res.val = <<LowerBound, LowerBound>>

\* the three indices the lateral solve_slab call of operator() received
Fed == <<res.neff.s[1].f.n1, res.neff.s[1].f.n2, res.neff.s[1].f.n3>>

\* component i (0 or 1) of the vertical solves n1, n2, n3
Vertical(i) == <<res.n1.val[i + 1], res.n2.val[i + 1], res.n3.val[i + 1]>>

\* C6 as claimed: for device mode TE the lateral solve receives the TM
\* components (tuple index 1) of n1, n2, n3, for device mode TM the TE
\* components (tuple index 0).
C6_FedSwapped ==
    op = "Waveguide" =>
        Fed = (IF args.mode = TE THEN Vertical(1) ELSE Vertical(0))

\* C6 as amended: for device mode TE the lateral solve receives the TE
\* components (tuple index 0) of n1, n2, n3, for device mode TM the TM
\* components (tuple index 1).
C6_FedSamePolarisation ==
    op = "Waveguide" =>
        Fed = (IF args.mode = TE THEN Vertical(0) ELSE Vertical(1))

\* a rib on a slab, where every vertical solve has two different components
C6_Witness ==
    /\ op = "Waveguide"
    /\ args.mode = TE
    /\ args.t_slab # 0
    /\ Get0(res.n1) # Get1(res.n1)
    /\ Get0(res.n2) # Get1(res.n2)
    /\ Fed = Vertical(0)

\* C7: operator() returns the component of the lateral solve whose index is
\* the opposite of the index of the vertical components fed in (TE: fed 0,
\* returned 1; TM: fed 1, returned 0), and the slab-region solve n1 serves
\* unchanged as the outer region n3.
C7_ReturnedOpposite ==
    op = "Waveguide" =>
        /\ res.n3 = res.n1
        /\ Fed[3] = Fed[1]
        /\ \E i \in {0, 1} :
              /\ i = (IF args.mode = TE THEN 0 ELSE 1)
              /\ Fed = Vertical(i)
              /\ res.ret = res.neff.val[(1 - i) + 1]

\* a TM device whose lateral solve has two different components
C7_Witness ==
    /\ op = "Waveguide"
    /\ args.mode = TM
    /\ Get0(res.neff) # Get1(res.neff)
    /\ res.ret = Get0(res.neff)
    /\ res.neff.s[1].status = CONVERGED

\* the lateral root-find whose value operator() returns
Lateral == IF args.mode = TE THEN res.neff.s[2] ELSE res.neff.s[1]

\* C8: when the lateral root-find is not CONVERGED (the mode order is not
\* supported), operator() reports min(n_box, n_clad), for every t_slab.
C8_UnsupportedIsMinBoxClad ==
    (op = "Waveguide" /\ Lateral.status # CONVERGED) =>
        res.ret = (IF args.n_box < args.n_clad THEN args.n_box
                   ELSE args.n_clad)

\* async_for_each has left its body, by return or by rethrow
AfeOver == apc.at \in {"returned", "threw"}

\* C11: the exception retained is the one of the first catch block that took
\* the mutex and no later one replaces it; async_for_each rethrows exactly
\* that exception, and only after every chunk task was launched, has ended
\* and was joined; it returns normally only if no chunk threw.
C11_ExceptionPropagation ==
    /\ ex_ptr = (IF caught = <<>> THEN 0 ELSE caught[1])
    /\ (AfeOver /\ ain.size > 0) =>
          /\ Len(task) = Threads(ain)
          /\ apc.i = Threads(ain)
          /\ \A k \in 1 .. Len(task) : task[k].pc = "done"
    /\ apc.at = "threw" => (caught # <<>> /\ apc.thrown = caught[1])
    /\ apc.at = "returned" => (caught = <<>> /\ ex_ptr = 0)

\* two chunks threw, the later chunk took the mutex first, and its exception
\* was rethrown
C11_Witness ==
    /\ apc.at = "threw"
    /\ Len(caught) >= 2
    /\ caught[1] > caught[2]
    /\ apc.thrown = caught[1]

\* the chunk of task k contains position p
InChunk(k, p) == task[k].chunk_begin <= p /\ p < task[k].chunk_end

\* C12: for a thread count t >= 1, when no callable throws, the chunks
\* launched are contiguous and non-empty, min(threads, size) of them cover the range with the last one
\* taking the remainder, every slot is written at most once, from its own
\* position and by the task of its chunk, and after the join every slot has
\* been written exactly once.
C12_ExactlyOnce ==
    (apc.at # "off" /\ ain.throws = {} /\ ain.threads >= 1) =>
        /\ \A k \in 1 .. Len(task) :
              /\ task[k].chunk_begin
                   = (IF k = 1 THEN 0 ELSE task[k - 1].chunk_end)
              /\ task[k].chunk_begin < task[k].chunk_end
        /\ (apc.at \in {"join", "returned"} /\ ain.size > 0) =>
              /\ Len(task) = (IF ain.threads < ain.size THEN ain.threads
                              ELSE ain.size)
              /\ task[Len(task)].chunk_end = ain.size
        /\ \A p \in 0 .. ain.size - 1 :
              /\ Len(slots[p]) <= 1
              /\ \A w \in 1 .. Len(slots[p]) :
                    slots[p][w].from = p /\ InChunk(slots[p][w].by, p)
              /\ apc.at = "returned" => Len(slots[p]) = 1
        /\ apc.at # "threw"

\* a range that does not divide evenly among several tasks, all joined
C12_Witness ==
    /\ apc.at = "returned"
    /\ ain.throws = {}
    /\ ain.threads >= 2
    /\ ain.size > ain.threads
    /\ ain.size % ain.threads # 0
    /\ \A p \in 0 .. ain.size - 1 : Len(slots[p]) = 1

\* C13: the call returns only after both tasks have finished, and the tuple
\* returned equals the one of the sequential path, TE first and TM second,
\* whatever the order in which the tasks ran and completed.
C13_ParEqualsSequential ==
    ppc = "returned" =>
        /\ te_mode.pc = "taken" /\ tm_mode.pc = "taken"
        /\ pret = solve_slab(pin.n1, pin.n2, pin.n3, pin.lambda, pin.W,
                             pin.j).val

\* the TM task finished before the TE task, one component converged and the
\* other fell back
C13_Witness ==
    /\ ppc = "returned"
    /\ tm_mode.rank = 0 /\ te_mode.rank = 1
    /\ pret[1] # pret[2]
    /\ pret[2] = StdMin(pin.n1, pin.n3)
    /\ pret[1] # StdMin(pin.n1, pin.n3)

\* the bisection runs of the call made last
Runs ==
    IF op = "bisection" THEN {res}
    ELSE IF SolverCall THEN {res.s[1], res.s[2]}
    ELSE {}

\* C14: every bisection run ends with a status among CONVERGED, DIVERGED and
\* INVALID_RANGE after at most max_iter bracket updates, reports at most
\* max_iter iterations and has evaluated f at most max_iter + 4 times.
C14_Terminates ==
    \A r \in Runs :
        /\ r.pc = "done"
        /\ r.status \in {CONVERGED, DIVERGED, INVALID_RANGE}
        /\ r.updates <= MaxIter
        /\ r.iterations <= MaxIter
        /\ Len(r.evals) <= MaxIter + 4

\* a run that used up its budget: max_iter updates, max_iter + 4 evaluations
C14_Witness ==
    \E r \in Runs :
        /\ r.iterations = MaxIter
        /\ r.updates = MaxIter
        /\ Len(r.evals) = MaxIter + 4
        /\ r.status = DIVERGED

----------------------------------------------------------------------------
(* main of the command line tool                                            *)

\* the number of iterations of the sweep of a configuration
Total(c) ==
    IF c.device = STRIP
    THEN Len(c.wavelengths) * Len(c.widths) * Len(c.mode_orders)
    ELSE Len(c.wavelengths) * Len(c.gaps) * Len(c.widths)
         * Len(c.mode_orders)

\* the element of list that iteration k of the sweep has, for a loop with
\* inner iterations inside each of its own
ElementAt(list, k, inner) == list[(((k - 1) \div inner) % Len(list)) + 1]

\* the bundle and the row of iteration k of the sweep of a configuration
StripBundleAt(c, k) ==
    [wavelength |-> ElementAt(c.wavelengths, k,
                       Len(c.mode_orders) * Len(c.widths)),
     t_rib |-> c.t_core, t_slab |-> c.t_slab,
     w_rib |-> ElementAt(c.widths, k, Len(c.mode_orders)), w_slab |-> 0,
     n_box |-> c.n_box, n_core |-> c.n_core, n_clad |-> c.n_clad,
     mode_order |-> ElementAt(c.mode_orders, k, 1), mode |-> c.mode]

StripRowAt(c, k) ==
    Auto(StripBundleAt(c, k), LAMBDA b :
        [t_slab |-> b.t_slab, t_rib |-> b.t_rib, width |-> b.w_rib,
         wavelength |-> b.wavelength, mode |-> b.mode,
         mode_order |-> b.mode_order, neff |-> Strip_operator(b)])

SlotBundleAt(c, k) ==
    [wavelength |-> ElementAt(c.wavelengths, k,
                       Len(c.mode_orders) * Len(c.widths) * Len(c.gaps)),
     t_core |-> c.t_core,
     w_core |-> ElementAt(c.widths, k, Len(c.mode_orders)),
     w_slot |-> ElementAt(c.gaps, k, Len(c.mode_orders) * Len(c.widths)),
     n_box |-> c.n_box, n_clad |-> c.n_clad, n_core |-> c.n_core,
     n_slot |-> c.n_slot, mode_order |-> ElementAt(c.mode_orders, k, 1),
     mode |-> c.mode]

SlotRowAt(c, k) ==
    Auto(SlotBundleAt(c, k), LAMBDA b :
        [t_core |-> b.t_core, w_core |-> b.w_core, w_slot |-> b.w_slot,
         wavelength |-> b.wavelength, mode |-> b.mode,
         mode_order |-> b.mode_order, neff |-> SlotValue(b)])

SweepOver == mpc \in {"log", "return"} \/ (mpc = "exit" /\ status = 0)

\* C15: the rows printed are, in order, the rows of the sweep points in
\* nested order (wavelength outermost, then slot width for a slot, then
\* width, then mode order), each with the value of wg() at its point, and
\* when the sweep is over there is one row for every combination
C15_SweepComplete ==
    /\ \A k \in 1 .. Len(rows) :
          rows[k] = IF ctx.device = STRIP THEN StripRowAt(ctx, k)
                    ELSE SlotRowAt(ctx, k)
    /\ SweepOver => Len(rows) = Total(ctx)

\* a sweep point of the slot without a mode: the 5-layer solve of the even
\* mode did not converge
Unsupported(b) ==
    b.wavelength > 0 /\ waveguide_operator(b).neff.s[1].status # CONVERGED

\* a slot sweep over sixteen points that is over, with a point without a
\* mode before its last row, printed with the fallback index
C15_Witness ==
    /\ mpc = "exit" /\ status = 0 /\ ctx.device = SLOT
    /\ Len(rows) = 16
    /\ \E k \in 1 .. 15 :
          /\ Unsupported(SlotBundleAt(ctx, k))
          /\ rows[k].neff = waveguide_operator(SlotBundleAt(ctx, k)).neff.nmin

\* a wavelength of the command line that is zero or negative
NonPositiveWavelength == \E k \in 1 .. Len(argv.l) : argv.l[k] <= 0

\* C16: with a wavelength on the command line that is zero or negative no
\* call of operator() or mode_2D, and so no solver call, is ever made, and
\* main ends with a nonzero status
C16_NonPositiveWavelengthRejected ==
    (mpc # "off" /\ NonPositiveWavelength)
        => (solves = 0 /\ (mpc = "exit" => status # 0))

\* the configuration errors of a command line
ConfigError ==
    \/ argv.l = <<>> \/ argv.w = <<>> \/ argv.j = <<>>
    \/ argv.n[1] = 0 \/ argv.n[2] = 0 \/ argv.n[3] = 0
    \/ argv.r = 0
    \/ (argv.t = "slot" /\ argv.S = <<>>)
    \/ (argv.log.O /\ (argv.log.p = 0 \/ argv.log.e = 0))
    \/ argv.m \notin {"TE", "TM"}
    \/ argv.t \notin {"strip", "slot"}

SameFields(r1, r2) == [r1 EXCEPT !.neff = 0] = [r2 EXCEPT !.neff = 0]

----------------------------------------------------------------------------
(* waveguide::operator() of the slot                                        *)

\* C19: operator() of the slot takes the core-region and slot-region
\* indices from the vertical solves of (n_box, n_core, n_clad) and
\* (n_box, n_slot, n_clad) at order 0, passes them with the requested mode
\* order to solve_slot_slab, and returns component 0 of its result, the
\* even mode, for TE and for TM
C19_SlotComposition ==
    op = "waveguide" =>
        /\ res.neff_core = solve_slab(args.n_box, args.n_core, args.n_clad,
                                      args.wavelength, args.t_core, 0)
        /\ res.ns = solve_slab(args.n_box, args.n_slot, args.n_clad,
                               args.wavelength, args.t_core, 0)
        /\ res.neff = IF args.mode = TE
                      THEN solve_slot_slab(Get0(res.neff_clad),
                               Get0(res.neff_core), Get0(res.ns),
                               args.wavelength, args.w_slot, args.w_core,
                               args.mode_order)
                      ELSE solve_slot_slab(Get1(res.neff_clad),
                               Get1(res.neff_core), Get1(res.ns),
                               args.wavelength, args.w_slot, args.w_core,
                               args.mode_order)
        /\ res.ret = Get0(res.neff)

\* a TM call over a slot of positive width whose even mode converged, to an
\* index other than component 1 of the 5-layer result
C19_Witness ==
    /\ op = "waveguide" /\ args.mode = TM /\ args.w_slot > 0
    /\ res.neff.s[1].status = CONVERGED
    /\ Get0(res.neff) # Get1(res.neff)
    /\ res.ret = Get0(res.neff)

----------------------------------------------------------------------------
(* solve_slab at the fundamental order                                      *)

\* a 3-layer call at order 0 with a core above both claddings and a
\* positive thickness and wavelength
GuidedFundamental ==
    /\ op = "solve_slab" /\ args.j = 0
    /\ args.n2 > StdMax(args.n1, args.n3)
    /\ args.W > 0 /\ args.lambda > 0

\* C20: for a core index above both cladding indices, a positive thickness
\* and a positive wavelength, both components of solve_slab at order 0 lie
\* strictly between max(n_box, n_clad) and n_core
C20_FundamentalInRange ==
    GuidedFundamental =>
        /\ StdMax(args.n1, args.n3) < Get0(res) /\ Get0(res) < args.n2
        /\ StdMax(args.n1, args.n3) < Get1(res) /\ Get1(res) < args.n2

----------------------------------------------------------------------------
(* The course of a bisection run                                            *)

\* the states a run passes through from state s on, n steps at most, split
\* in halves like BisectSteps
RECURSIVE TraceFrom(_, _)
TraceFrom(s, n) ==
    IF s.pc = "done" \/ n = 0 THEN {s}
    ELSE IF n = 1 THEN {s, BisectStep(s, Tol, MaxIter)}
    ELSE TraceFrom(s, n \div 2)
         \cup Auto(BisectSteps(s, n \div 2, Tol, MaxIter),
                   LAMBDA h : TraceFrom(h, n - n \div 2))

\* every state of the run bisection(f, a, b), the entry state first
BisectTrace(f, a, b) ==
    Auto(BisectEnter(f, a, b), LAMBDA s : TraceFrom(s, MaxIter + 1))

\* C22: after every bracket update of the loop the new bracket [a', b']
\* still has f(a') * f(b') <= 0, also when f is exactly zero at an endpoint
\* of the bracket the caller passed, so that a root is never discarded
C22_BracketInvariant ==
    op = "bisection" =>
        \A s \in BisectTrace(args.f, args.a, args.b) :
            s.updates > 0 => ~ProdPos(Eval(s.f, s.a), Eval(s.f, s.b))

\* C25: for a bracket with f(a) * f(b) <= 0, whenever the returned point x
\* has |f(x)| < tol the status is CONVERGED; in particular when the first
\* midpoint of the bracket is already within tolerance of a root
C25_FoundRootReported ==
    (op = "bisection"
     /\ ~ProdPos(Eval(args.f, args.a), Eval(args.f, args.b))
     /\ LT(Fabs(Eval(args.f, res.ret)), Tol)) =>
        res.status = CONVERGED

\* C26: for every pair of endpoints, a reversed bracket a > b included, a
\* run that reports CONVERGED returns a point x with |f(x)| < tol or leaves
\* a bracket with |b' - a'| / 2 <= tol
C26_ConvergedNotSpurious ==
    (op = "bisection" /\ res.status = CONVERGED) =>
        \/ LT(Fabs(Eval(args.f, res.ret)), Tol)
        \/ Fabs(res.b - res.a) <= 2 * Tol

\* the width of the bracket of state s
Width(s) == Fabs(s.b - s.a)

\* x lies in the closed interval between a and b
Between(x, a, b) == (a <= x /\ x <= b) \/ (b <= x /\ x <= a)

\* the pairs <<s, t>> of the run where a pass of the loop body took the
\* bracket of s to the bracket of t
BracketUpdates ==
    {<<s, BisectStep(s, Tol, MaxIter)>> :
        s \in {r \in BisectTrace(args.f, args.a, args.b) :
                 /\ r.pc = "loop"
                 /\ LoopCond(r, Tol, MaxIter)
                 /\ BisectStep(r, Tol, MaxIter).updates = r.updates + 1}}

\* every evaluation point and the returned value lie between a and b
Contained ==
    /\ \A i \in 1..Len(res.evals) : Between(res.evals[i], args.a, args.b)
    /\ Between(res.ret, args.a, args.b)

----------------------------------------------------------------------------
(* async_for_each: the chunking and the index handed to the callable        *)

\* C28: for every non-empty range and every requested thread count t >= 0,
\* async_for_each does not divide by zero, computes a chunk size of at
\* least 1, launches at least one and at most size tasks, and has processed
\* every element when it returns
C28_ChunkingDefined ==
    (apc.at \notin {"off", "entry"} /\ ain.size > 0) =>
        /\ apc.at # "trapped"
        /\ Threads(ain) # 0 /\ ChunkSize(ain) >= 1
        /\ Len(task) <= ain.size
        /\ apc.at \in {"join", "returned", "threw"} => Len(task) >= 1
        /\ (apc.at = "returned" /\ ain.throws = {}) =>
              \A p \in 0 .. ain.size - 1 : Len(slots[p]) >= 1

\* C27: for every range length and thread count >= 1, every invocation of a
\* callable of (element, index) receives as index the position of the
\* element in the whole range, also in chunks of more than one element and
\* in a last chunk longer than the others
C27_IndexIsPosition ==
    (apc.at # "off" /\ ain.threads >= 1) =>
        \A p \in 0 .. ain.size - 1 :
            \A w \in 1 .. Len(slots[p]) : slots[p][w].idx = p

----------------------------------------------------------------------------
(* vec::outer_product and vec::async_outer_product (libvec.h, PAR != 1).    *)
(* The range of async_for_each is the profile a, slot i is row c[i].        *)

\* columns of the grid, the length of the profile b
Cols == 2

\* the profiles: a[i] and b[j], pairwise distinct values
ProfileA(i) == 2 * i + 3
ProfileB(j) == 7 - 5 * j

\* lines 137-144: c[i][j] = a[i] * b[j] for i < rows and j < cols
outer_product(nrows, ncols) ==
    [i \in 0 .. nrows - 1 |->
        [j \in 0 .. ncols - 1 |-> ProfileA(i) * ProfileB(j)]]

\* a callable that writes a[i] * b[0] in every column
OuterRow_FirstColumn(w) ==
    [j \in 0 .. Cols - 1 |-> ProfileA(w.from) * ProfileB(0)]

\* lines 175-181: the callable of async_outer_product, handed the element
\* ai = a[w.from], writes c[i][j] = ai * *(b + j) for j < cols
OuterRow(w) ==
    [j \in 0 .. Cols - 1 |-> ProfileA(w.from) * ProfileB(0 + j)]

\* the rows of c written so far, the last write of each
Grid ==
    [i \in {p \in 0 .. ain.size - 1 : slots[p] # <<>>} |->
        OuterRow(slots[i][Len(slots[i])])]

\* C21: for every thread count >= 1 and every interleaving, each task of
\* async_outer_product writes only rows of its own chunk, every row it
\* writes is the row outer_product writes, c[i][j] = a[i] * b[j], and after
\* the join the grid is the grid of outer_product, nothing more
C21_OuterProduct ==
    (apc.at # "off" /\ ain.throws = {} /\ ain.threads >= 1) =>
        /\ \A p \in 0 .. ain.size - 1 :
              \A w \in 1 .. Len(slots[p]) :
                 /\ InChunk(slots[p][w].by, p)
                 /\ OuterRow(slots[p][w]) = outer_product(ain.size, Cols)[p]
        /\ apc.at = "returned" => Grid = outer_product(ain.size, Cols)

\* a grid of several rows and columns written by several tasks, the last
\* one with two rows, whose entries differ by row and by column
C21_Witness ==
    /\ apc.at = "returned" /\ ain.throws = {}
    /\ ain.threads >= 2 /\ ain.size > ain.threads
    /\ task[Len(task)].chunk_end - task[Len(task)].chunk_begin >= 2
    /\ Grid = outer_product(ain.size, Cols)
    /\ Grid[0][0] # Grid[0][1] /\ Grid[0][0] # Grid[1][0]

----------------------------------------------------------------------------
(* eim::mode_1D (libeim.h), serial execution: calculate_field for every     *)
(* sample.  An output cell holds the list of the values written to it; a    *)
(* value is kept as the branch that made it and the cells it was read from. *)

\* most samples in a call
MaxPoints == 2

\* sample positions on both sides of x = 0 and x = W, for W in {0, 5000}
Positions == {0 - 1, 0, 1, 4999, 5000, 5001}

\* a split that leaves the boundaries x = 0 and x = W to neither region
Region_OpenCore(xi, W) ==
    IF xi < 0 THEN "C1"
    ELSE IF xi > 0 /\ xi < W THEN "C2"
    ELSE IF xi > W THEN "C3"
    ELSE "none"

\* lines 220, 232, 244: the branch taken for the sample position xi
Region(xi, W) ==
    IF xi < 0 THEN "C1"
    ELSE IF xi >= 0 /\ xi <= W THEN "C2"
    ELSE IF xi > W THEN "C3"
    ELSE "none"

\* lines 216-256: calculate_field(i) reads x[i], assigns A[i] from it, and
\* Bl[i] and Bn[i] from A[i] (the cosine branch takes Bn[i] from x[i])
calculate_field(f, i) ==
    LET r == Region(f.x[i], f.W)
    IN  IF r = "none" THEN f
        ELSE [f EXCEPT
                !.A[i] = Append(@, [branch |-> r, reads |-> {<<"x", i>>}]),
                !.Bl[i] = Append(@, [branch |-> r, reads |-> {<<"A", i>>}]),
                !.Bn[i] = Append(@, [branch |-> r,
                                     reads |-> IF r = "C2" THEN {<<"x", i>>}
                                               ELSE {<<"A", i>>}])]

\* lines 282-286: for (i = 0; i < xs; i++) calculate_field(i)
RECURSIVE FieldLoop(_, _)
FieldLoop(f, i) ==
    IF i < f.xs THEN FieldLoop(calculate_field(f, i), i + 1) ELSE f

\* mode_1D<mode>(x1, x2, A, Bl, Bn, ...) over xs samples, PAR == 0
mode_1D(mode, x, xs, W) ==
    FieldLoop([mode |-> mode, x |-> x, xs |-> xs, W |-> W,
               A |-> [i \in 0 .. xs - 1 |-> <<>>],
               Bl |-> [i \in 0 .. xs - 1 |-> <<>>],
               Bn |-> [i \in 0 .. xs - 1 |-> <<>>]], 0)

CallMode1D ==
    /\ op = "none"
    /\ \E mode \in {TE, TM}, W \in {0, 5000},
          x \in UNION {[0 .. n - 1 -> Positions] : n \in 0 .. MaxPoints} :
          /\ op' = "mode_1D"
          /\ args' = [mode |-> mode, x |-> x, W |-> W]
          /\ res' = mode_1D(mode, x, Cardinality(DOMAIN x), W)
    /\ UNCHANGED <<wg, swg, asyncVars, parVars, cliVars>>

SpecField == Init /\ [][CallMode1D]_vars

\* C23: for every sample position x and core width W >= 0, calculate_field
\* takes exactly one branch, C1 for x < 0, C2 for 0 <= x <= W (x = 0 and
\* x = W included), C3 for x > W, writes A[i], Bl[i] and Bn[i] of the sample
\* exactly once each, and reads no input or output of another sample
C23_RegionSplit ==
    op = "mode_1D" =>
        \A i \in DOMAIN args.x :
            \A out \in {res.A, res.Bl, res.Bn} :
                /\ Len(out[i]) = 1
                /\ out[i][1].branch
                      = (IF args.x[i] < 0 THEN "C1"
                         ELSE IF args.x[i] <= args.W THEN "C2" ELSE "C3")
                /\ \A c \in out[i][1].reads : c[2] = i

\* a call with a sample on each boundary of a core of positive width
C23_Witness ==
    /\ op = "mode_1D" /\ args.W > 0
    /\ \E i, k \in DOMAIN args.x :
          /\ args.x[i] = 0 /\ args.x[k] = args.W
          /\ res.A[i][1].branch = "C2" /\ res.A[k][1].branch = "C2"

----------------------------------------------------------------------------
(* Waveguide::mode_2D of eim.cc: the solve_slab calls it makes and the      *)
(* index at which it evaluates the lateral profile                          *)

\* the arguments of a solve_slab call
SlabCall(n1, n2, n3, lambda, W, j) ==
    [n1 |-> n1, n2 |-> n2, n3 |-> n3, lambda |-> lambda, W |-> W, j |-> j]

\* lines 86-87 and 94, 99: the three calls of operator(), given its result
Waveguide_operator_calls(w, r) ==
    <<SlabCall(w.n_box, IF w.t_slab # 0 THEN w.n_core ELSE w.n_clad,
               w.n_clad, w.wavelength, w.t_slab, 0),
      SlabCall(w.n_box, w.n_core, w.n_clad, w.wavelength, w.t_rib, 0),
      IF w.mode = TE
      THEN SlabCall(Get0(r.n1), Get0(r.n2), Get0(r.n3), w.wavelength,
                    w.w_rib, w.mode_order)
      ELSE SlabCall(Get1(r.n1), Get1(r.n2), Get1(r.n3), w.wavelength,
                    w.w_rib, w.mode_order)>>

\* lines 122-149: the solves of mode_2D.  lateral is the neff argument of
\* the second mode_1D call, vertical the one of the first.
Waveguide_mode_2D(w) ==
    Auto(solve_slab(w.n_box, IF w.t_slab # 0 THEN w.n_core ELSE w.n_clad,
                    w.n_clad, w.wavelength, w.t_slab, w.mode_order),
         LAMBDA n1 :
    Auto(solve_slab(w.n_box, w.n_core, w.n_clad, w.wavelength, w.t_rib,
                    w.mode_order),
         LAMBDA n2 :
    Auto(n1, LAMBDA n3 :
        IF w.mode = TE
        THEN Auto(solve_slab(Get0(n1), Get0(n2), Get0(n3),
                             w.wavelength, w.w_rib, w.mode_order),
                  LAMBDA neff :
                      [vertical |-> Get0(n2), lateral |-> Get1(neff),
                       n1 |-> n1, n2 |-> n2, n3 |-> n3, neff |-> neff,
                       calls |->
                         <<SlabCall(w.n_box,
                                    IF w.t_slab # 0 THEN w.n_core
                                    ELSE w.n_clad,
                                    w.n_clad, w.wavelength, w.t_slab,
                                    w.mode_order),
                           SlabCall(w.n_box, w.n_core, w.n_clad,
                                    w.wavelength, w.t_rib, w.mode_order),
                           SlabCall(Get0(n1), Get0(n2), Get0(n3),
                                    w.wavelength, w.w_rib, w.mode_order)>>])
        ELSE Auto(solve_slab(Get1(n1), Get1(n2), Get1(n3),
                             w.wavelength, w.w_rib, w.mode_order),
                  LAMBDA neff :
                      [vertical |-> Get1(n2), lateral |-> Get0(neff),
                       n1 |-> n1, n2 |-> n2, n3 |-> n3, neff |-> neff,
                       calls |->
                         <<SlabCall(w.n_box,
                                    IF w.t_slab # 0 THEN w.n_core
                                    ELSE w.n_clad,
                                    w.n_clad, w.wavelength, w.t_slab,
                                    w.mode_order),
                           SlabCall(w.n_box, w.n_core, w.n_clad,
                                    w.wavelength, w.t_rib, w.mode_order),
                           SlabCall(Get1(n1), Get1(n2), Get1(n3),
                                    w.wavelength, w.w_rib, w.mode_order)>>]))))

\* main of eim.cc, lines 374-391: one iteration of the second sweep assigns
\* the width and the mode order and calls log_mode, which calls mode_2D
LogModeStrip ==
    /\ \E w \in Widths, j \in Orders :
          /\ args' = [wg EXCEPT !.w_rib = w, !.mode_order = j]
          /\ op' = "mode_2D"
          /\ res' = Waveguide_mode_2D(args')
          /\ wg' = Waveguide_mode_2D_this(args')
    /\ UNCHANGED <<swg, asyncVars, parVars, cliVars>>

SpecMode2D == InitStrip /\ [][LogModeStrip]_vars

\* C24: for every bundle and every mode order, mode_2D issues the solve_slab
\* calls of operator(), the two vertical ones with the same stacks and the
\* same mode order and the same lateral one, and evaluates the lateral
\* profile at the index operator() returns for the bundle
C24_FieldUsesComposedIndex ==
    op = "mode_2D" =>
        Auto(Waveguide_operator(args), LAMBDA r :
            /\ res.calls = Waveguide_operator_calls(args, r)
            /\ res.lateral = r.ret)

----------------------------------------------------------------------------
(* The slot index of a slot device                                          *)

\* C30: a slot device for which option -n gave three indices, so that n_slot
\* was left zero, is rejected: main calls no solver and leaves with a
\* nonzero status
C30_SlotIndexRequired ==
    (mpc # "off" /\ argv.t = "slot" /\ argv.n[4] = 0) =>
        /\ solves = 0
        /\ mpc \in {"parse", "validate", "exit"}
        /\ mpc = "exit" => status # 0

====
